---------------------------- MODULE Spec2Model ----------------------------
(***************************************************************************)
(* A model of nokia/nbf/message.go: the decoder of the message files found *)
(* in Nokia NBF backup archives (file name fields, SMS-DELIVER TPDU, BCD   *)
(* address, semi-octet timestamp, 7-bit septet unpacking).                 *)
(*                                                                         *)
(* Every function of the file is a pure function of its argument, so the   *)
(* state of each specification below is one call: the argument the caller  *)
(* hands in and the result of the call ("pending" until the call is made). *)
(*                                                                         *)
(* Conventions                                                             *)
(*  - a byte is a number 0..255, a character is its byte value;            *)
(*  - a Go string is a sequence of bytes (slicing is bounded by its        *)
(*    length);                                                             *)
(*  - a Go []byte is a record [arr, len]: arr holds the bytes from the     *)
(*    start of the slice to its capacity, len is its length.  An index     *)
(*    expression is bounded by len, a slice expression s[lo:hi] by the     *)
(*    capacity, and s[lo:] by len, as the language defines them;           *)
(*  - a run time panic is the result [status |-> "panic", at |-> place].   *)
(***************************************************************************)
EXTENDS Integers, Sequences, FiniteSets, TLC

VARIABLES
    filename,   \* argument of Message.ParseFilename
    fnResult,   \* its outcome: the receiver's fields and the error
    buf,        \* argument of parseMessage: the bytes of one message file
    raw,        \* its outcome: rawMessage and error
    pdu,        \* argument of parseDeliverMessage
    dlv,        \* its outcome: deliverMessage and size
    bcdIn,      \* argument of decodeBCD
    bcdOut,     \* its outcome
    stampIn,    \* argument of parseDateTime (7 octets)
    stampOut,   \* its outcome
    septets,    \* the text an encoder packs
    packed,     \* the packed octets handed to unpack7bit
    unpacked    \* outcome of unpack7bit

vars == << filename, fnResult, buf, raw, pdu, dlv, bcdIn, bcdOut,
           stampIn, stampOut, septets, packed, unpacked >>

Pending == [status |-> "pending"]
Unused == [status |-> "unused"]

Panic(place) == [status |-> "panic", at |-> place]

-----------------------------------------------------------------------------
(* Bytes and bits *)

RECURSIVE BitAnd(_, _)
BitAnd(a, b) ==
    IF a = 0 \/ b = 0 THEN 0
    ELSE (IF a % 2 = 1 /\ b % 2 = 1 THEN 1 ELSE 0) + 2 * BitAnd(a \div 2, b \div 2)

RECURSIVE BitOr(_, _)
BitOr(a, b) ==
    IF a = 0 THEN b
    ELSE IF b = 0 THEN a
    ELSE (IF a % 2 = 1 \/ b % 2 = 1 THEN 1 ELSE 0) + 2 * BitOr(a \div 2, b \div 2)

RECURSIVE Pow2(_)
Pow2(n) == IF n = 0 THEN 1 ELSE 2 * Pow2(n - 1)

Shr(a, n) == a \div Pow2(n)

Uint8(x) == x % 256
Uint16(x) == x % 65536

Zeros(n) == [i \in 1..n |-> 0]

Take(q, n) == SubSeq(q, 1, n)
Drop(q, n) == SubSeq(q, n + 1, Len(q))

-----------------------------------------------------------------------------
(* Go byte slices *)

MkSlice(arr, n) == [arr |-> arr, len |-> n]
Cap(s) == Len(s.arr)
At(s, i) == s.arr[i + 1]
CanSlice(s, lo, hi) == 0 <= lo /\ lo <= hi /\ hi <= Cap(s)
Slice(s, lo, hi) == [arr |-> Drop(s.arr, lo), len |-> hi - lo]
Data(s) == Take(s.arr, s.len)

-----------------------------------------------------------------------------
(* decodeBCD *)

RECURSIVE decodeBCDLoop(_, _, _)
decodeBCDLoop(b, i, s) ==
    IF i > Len(b) THEN s
    ELSE LET c == b[i]
             s1 == Append(s, Uint8(48 + BitAnd(c, 15)))
         IN IF Shr(c, 4) = 15
            THEN s1
            ELSE decodeBCDLoop(b, i + 1, Append(s1, Uint8(48 + Shr(c, 4))))

RECURSIVE decodeBCDLoopNoBreak(_, _, _)
decodeBCDLoopNoBreak(b, i, s) ==
    IF i > Len(b) THEN s
    ELSE LET c == b[i]
             s1 == Append(s, Uint8(48 + BitAnd(c, 15)))
         IN IF Shr(c, 4) = 15
            THEN decodeBCDLoopNoBreak(b, i + 1, s1)
            ELSE decodeBCDLoopNoBreak(b, i + 1, Append(s1, Uint8(48 + Shr(c, 4))))

decodeBCD_SkipFill(b) == decodeBCDLoopNoBreak(Data(b), 1, << >>)

decodeBCD(b) == decodeBCDLoop(Data(b), 1, << >>)

-----------------------------------------------------------------------------
(* parseDateTime *)

Date(year, month, day, hour, min, sec, nsec, zone) ==
    [year |-> year, month |-> month, day |-> day, hour |-> hour,
     min |-> min, sec |-> sec, nsec |-> nsec, zone |-> zone]

FixedZone(name, offset) == [name |-> name, offset |-> offset]

SemiOctet(c) == BitAnd(c, 15) * 10 + Shr(c, 4)

parseDateTime_Unswapped(b) ==
    LET dt == [i \in 0..6 |-> Shr(At(b, i), 4) * 10 + BitAnd(At(b, i), 15)]
    IN Date(2000 + dt[0], dt[1], dt[2], dt[3], dt[4], dt[5], 0,
            FixedZone("", (dt[6] * 3600) \div 4))

parseDateTime(b) ==
    LET dt == [i \in 0..6 |-> SemiOctet(At(b, i))]
    IN Date(2000 + dt[0], dt[1], dt[2], dt[3], dt[4], dt[5], 0,
            FixedZone("", (dt[6] * 3600) \div 4))

-----------------------------------------------------------------------------
(* unpack7bit *)

RECURSIVE unpack7bitDrainLate(_, _, _)
unpack7bitDrainLate(bf, buflen, out) ==
    IF buflen > 7
    THEN unpack7bitDrainLate(Shr(bf, 7), buflen - 7,
                             Append(out, Uint8(BitAnd(bf, 127))))
    ELSE [bf |-> bf, buflen |-> buflen, out |-> out]

\* Lines 293-297: the inner loop, which moves whole septets from buf to out.
RECURSIVE unpack7bitDrain(_, _, _)
unpack7bitDrain(bf, buflen, out) ==
    IF buflen >= 7
    THEN unpack7bitDrain(Shr(bf, 7), buflen - 7, Append(out, Uint8(BitAnd(bf, 127))))
    ELSE [bf |-> bf, buflen |-> buflen, out |-> out]

\* Lines 290-297: the body of the outer loop for the octet c = s[0], st being
\* buf, buflen and out before it.
unpack7bitStep(st, c) ==
    unpack7bitDrain(BitOr(st.bf, Uint16(c * Pow2(st.buflen))), st.buflen + 8, st.out)

\* Lines 289-298: the outer loop over the octets s[lo..hi], taken in order.
\* The range is split in two halves, the second run from the state the
\* first leaves, only to keep the evaluation shallow; the test on buflen,
\* which is never negative, makes the first half's state be computed before
\* the second half is entered.
RECURSIVE unpack7bitLoop(_, _, _, _)
unpack7bitLoop(s, lo, hi, st) ==
    IF lo > hi THEN st
    ELSE IF lo = hi THEN unpack7bitStep(st, s[lo])
    ELSE LET half == unpack7bitLoop(s, lo, (lo + hi) \div 2, st)
         IN IF half.buflen >= 0
            THEN unpack7bitLoop(s, (lo + hi) \div 2 + 1, hi, half)
            ELSE half

unpack7bit(s) ==
    LET n == s.len
        out == unpack7bitLoop(s.arr, 1, n, [bf |-> 0, buflen |-> 0, out |-> << >>]).out
        cap == n + n \div 7 + 1
    IN MkSlice(out \o Zeros(IF cap > Len(out) THEN cap - Len(out) ELSE 0), Len(out))

-----------------------------------------------------------------------------
(* parseDeliverMessage *)

\* Octets that carry `length` septets (line 224).
packedLenOf_Floor(length) == (length * 7) \div 8

packedLenOf(length) == length - length \div 8

\* Entries a concatenation header takes from the front of RawData: short is
\* the header with an 8-bit reference (lines 237-241), otherwise the one with
\* a 16-bit reference (lines 248-252).
StripOf_Octets(short, unicode) == IF short THEN 6 ELSE 7

StripOf(short, unicode) ==
    IF short THEN (IF unicode THEN 6 ELSE 7) ELSE (IF unicode THEN 7 ELSE 8)

\* Lines 196-203: type octet and originating address.
deliverAddress(s) ==
    IF s.len < 1 THEN Panic("p[0]")
    ELSE IF s.len < 2 THEN Panic("p[1]")
    ELSE LET nbLen == At(s, 1)
             end == 3 + (nbLen + 1) \div 2
         IN IF ~CanSlice(s, 3, end) THEN Panic("p[3:3+(nbLen+1)/2]")
            ELSE IF end > s.len THEN Panic("s[size:]")
            ELSE [status |-> "ok",
                  MsgType |-> BitAnd(At(s, 0), 3),
                  MoreMsg |-> (BitAnd(At(s, 0), 4) = 0),
                  FromAddr |-> decodeBCD(Slice(s, 3, end)),
                  size |-> end]

\* Lines 205-213: data coding scheme and service centre time stamp.
deliverFormat(s, size) ==
    LET p == Slice(s, size, s.len)
    IN IF p.len < 2 THEN Panic("p[1]")
       ELSE IF ~CanSlice(p, 2, 9) THEN Panic("p[2:9]")
       ELSE IF size + 9 > s.len THEN Panic("s[size:]")
       ELSE [status |-> "ok",
             Compressed |-> (BitAnd(At(p, 1), 32) # 0),
             Unicode |-> (BitAnd(At(p, 1), 8) # 0),
             SMSCStamp |-> parseDateTime(Slice(p, 2, 9)),
             size |-> size + 9]

\* Lines 215-228: the user data, p being s[size:].
deliverPayload(p, unicode) ==
    IF p.len < 1 THEN Panic("p[0]")
    ELSE LET length == At(p, 0)
             packedLen == packedLenOf(length)
         IN IF unicode
            THEN IF ~CanSlice(p, 1, length + 1) THEN Panic("p[1:length+1]")
                 ELSE [status |-> "ok", RawData |-> Slice(p, 1, length + 1),
                       used |-> length + 1]
            ELSE IF ~CanSlice(p, 1, 1 + packedLen) THEN Panic("p[1:1+packedLen]")
                 ELSE LET out == unpack7bit(Slice(p, 1, 1 + packedLen))
                      IN IF length > Cap(out) THEN Panic("RawData[:length]")
                         ELSE [status |-> "ok", RawData |-> Slice(out, 0, length),
                               used |-> packedLen + 1]

\* Lines 229-253: the concatenation header, ud being p[1:].
deliverConcat(ud, unicode, RawData) ==
    IF ud.len >= 6 /\ At(ud, 0) = 5 /\ At(ud, 1) = 0 /\ At(ud, 2) = 3
    THEN IF StripOf(TRUE, unicode) > RawData.len THEN Panic("RawData[n:]")
         ELSE [status |-> "ok", Concat |-> TRUE,
               Part |-> At(ud, 5), NParts |-> At(ud, 4), Ref |-> At(ud, 3),
               RawData |-> Slice(RawData, StripOf(TRUE, unicode), RawData.len)]
    ELSE IF ud.len >= 7 /\ At(ud, 0) = 6 /\ At(ud, 1) = 8 /\ At(ud, 2) = 4
    THEN IF StripOf(FALSE, unicode) > RawData.len THEN Panic("RawData[n:]")
         ELSE [status |-> "ok", Concat |-> TRUE,
               Part |-> At(ud, 6), NParts |-> At(ud, 5),
               Ref |-> BitOr(At(ud, 3) * 256, At(ud, 4)),
               RawData |-> Slice(RawData, StripOf(FALSE, unicode), RawData.len)]
    ELSE [status |-> "ok", Concat |-> FALSE, Part |-> 0, NParts |-> 0, Ref |-> 0,
          RawData |-> RawData]

NilSlice == MkSlice(<< >>, 0)

\* The zero deliverMessage (SMSCStamp: the zero time.Time).
ZeroDeliver ==
    [MsgType |-> 0, MoreMsg |-> FALSE, FromAddr |-> << >>, Protocol |-> 0,
     Compressed |-> FALSE, Unicode |-> FALSE, SMSCStamp |-> [zero |-> TRUE],
     RawData |-> NilSlice, Concat |-> FALSE, Ref |-> 0, Part |-> 0, NParts |-> 0]

parseDeliverMessage(s) ==
    LET a == deliverAddress(s)
    IN IF a.status = "panic" THEN a
       ELSE LET f == deliverFormat(s, a.size)
            IN IF f.status = "panic" THEN f
               ELSE LET p == Slice(s, f.size, s.len)
                        d == deliverPayload(p, f.Unicode)
                    IN IF d.status = "panic" THEN d
                       ELSE LET c == deliverConcat(Slice(p, 1, p.len), f.Unicode, d.RawData)
                            IN IF c.status = "panic" THEN c
                               ELSE [status |-> "ok",
                                     size |-> f.size + d.used,
                                     msg |-> [MsgType |-> a.MsgType,
                                              MoreMsg |-> a.MoreMsg,
                                              FromAddr |-> a.FromAddr,
                                              Protocol |-> 0,
                                              Compressed |-> f.Compressed,
                                              Unicode |-> f.Unicode,
                                              SMSCStamp |-> f.SMSCStamp,
                                              RawData |-> c.RawData,
                                              Concat |-> c.Concat,
                                              Ref |-> c.Ref,
                                              Part |-> c.Part,
                                              NParts |-> c.NParts]]

-----------------------------------------------------------------------------
(* parseMessage *)

\* unicode/utf16.Decode: surrogate pairs joined, a lone surrogate replaced
\* by U+FFFD.
RECURSIVE utf16Decode(_)
utf16Decode(u) ==
    IF Len(u) = 0 THEN << >>
    ELSE IF u[1] < 55296 \/ u[1] >= 57344
         THEN << u[1] >> \o utf16Decode(Tail(u))
    ELSE IF u[1] < 56320 /\ Len(u) >= 2 /\ u[2] >= 56320 /\ u[2] < 57344
         THEN << 65536 + (u[1] - 55296) * 1024 + (u[2] - 56320) >>
              \o utf16Decode(Tail(Tail(u)))
    ELSE << 65533 >> \o utf16Decode(Tail(u))

\* string([]rune): the text as its code points, a rune that is no code point
\* (a surrogate) replaced by U+FFFD.
RuneString(r) ==
    [i \in 1..Len(r) |-> IF r[i] >= 55296 /\ r[i] < 57344 THEN 65533 ELSE r[i]]

\* Lines 111-114: the peer name, from offset 0x5e to a zero code unit.
RECURSIVE peerScan(_, _, _)
peerScan(s, off, runes) ==
    IF off >= s.len THEN Panic("s[off]")
    ELSE IF off + 1 >= s.len THEN Panic("s[off+1]")
    ELSE IF BitOr(At(s, off), At(s, off + 1)) = 0
         THEN [status |-> "ok", runes |-> runes]
    ELSE peerScan(s, off + 2, Append(runes, At(s, off) * 256 + At(s, off + 1)))

\* Lines 139-159: what follows the TPDU.
parseMessageText(peer, msg, rest) ==
    IF rest.len = 0
    THEN [status |-> "ok", m |-> [Peer |-> peer, Text |-> << >>, Msg |-> msg]]
    ELSE IF rest.len < 72 THEN [status |-> "error", err |-> "truncated message"]
    ELSE LET q == Slice(rest, 65, rest.len)
             length == At(q, 5)
             body == Slice(q, 6, q.len)
             n == length \div 2
         IN IF 2 * n > Cap(body) THEN Panic("pdu[2*i:2*i+2]")
            ELSE [status |-> "ok",
                  m |-> [Peer |-> peer,
                         Text |-> RuneString([i \in 1..n |->
                                     body.arr[2 * i - 1] * 256 + body.arr[2 * i]]),
                         Msg |-> msg]]

parseMessage(s) ==
    LET scan == peerScan(s, 94, << >>)
    IN IF scan.status = "panic" THEN scan
       ELSE IF 176 > s.len THEN Panic("s[0xb0:]")
       ELSE LET peer == RuneString(utf16Decode(scan.runes))
                tpdu == Slice(s, 176, s.len)
            IN IF tpdu.len < 1 THEN Panic("pdu[0]")
               ELSE IF BitAnd(At(tpdu, 0), 3) = 3 THEN Panic("invalid message type 3")
               ELSE IF BitAnd(At(tpdu, 0), 3) = 0
                    THEN LET d == parseDeliverMessage(tpdu)
                         IN IF d.status = "panic" THEN d
                            ELSE IF d.size > tpdu.len THEN Panic("pdu[n:]")
                            ELSE parseMessageText(peer, d.msg,
                                                  Slice(tpdu, d.size, tpdu.len))
               ELSE parseMessageText(peer, ZeroDeliver, tpdu)

-----------------------------------------------------------------------------
(* ParseFilename *)

\* The value of one character as a digit of strconv.ParseUint (base 16),
\* -1 for a character that is no digit.
HexDigit(c) ==
    IF c \in 48..57 THEN c - 48
    ELSE IF c \in 97..102 THEN c - 97 + 10
    ELSE IF c \in 65..70 THEN c - 65 + 10
    ELSE -1

\* A 32-bit unsigned number is kept as its two 16-bit halves [hi, lo]: its
\* value is hi * 65536 + lo.
Word(hi, lo) == [hi |-> hi, lo |-> lo]

\* n * 16 + d, for n below 2^28
WordShiftInDigit(n, d) ==
    Word(n.hi * 16 + n.lo \div 4096, (n.lo * 16 + d) % 65536)

\* n >> k
WordShr(n, k) ==
    IF k >= 16 THEN Word(0, Shr(n.hi, k - 16))
    ELSE Word(Shr(n.hi, k), Shr(n.lo, k) + (n.hi % Pow2(k)) * Pow2(16 - k))

WordUint8(n) == n.lo % 256
WordUint16(n) == n.lo

\* strconv.ParseUint(s, 16, 32) for the strings getUint32 hands it (8
\* characters, so the value always fits 32 bits): the value, or a syntax
\* error with value 0.
RECURSIVE ParseUintLoop(_, _, _)
ParseUintLoop(s, i, n) ==
    IF i > Len(s) THEN [n |-> n, err |-> FALSE]
    ELSE IF HexDigit(s[i]) < 0 THEN [n |-> Word(0, 0), err |-> TRUE]
    ELSE ParseUintLoop(s, i + 1, WordShiftInDigit(n, HexDigit(s[i])))

ParseUint(s) ==
    IF Len(s) = 0 THEN [n |-> Word(0, 0), err |-> TRUE]
    ELSE ParseUintLoop(s, 1, Word(0, 0))

Uint32(x) == Word(x.hi % 65536, x.lo % 65536)

getUint32(s) ==
    IF Len(s) < 8 THEN Panic("s[:8]")
    ELSE LET x == ParseUint(Take(s, 8))
         IN [status |-> "ok", rest |-> Drop(s, 8), n |-> Uint32(x.n), err |-> x.err]

ZeroMessage ==
    [Seq |-> Word(0, 0), Timestamp |-> Word(0, 0), MultipartSeq |-> 0, Flags |-> 0,
     PartNo |-> 0, PartTotal |-> 0, Peer |-> Zeros(12), Pad |-> 0]

MultipartSeqOf(n) == WordUint16(WordShr(n, 16))
FlagsOf(n) == WordUint16(n)

PartNoOf_Shift8(n) == WordUint8(WordShr(n, 8))

PartNoOf(n) == WordUint8(WordShr(n, 12))
PartTotalOf(n) == WordUint8(WordShr(n, 20))

FilenamePanic(place, msg) == [status |-> "panic", at |-> place, msg |-> msg]
FilenameError(msg) == [status |-> "error", msg |-> msg]

\* Lines 56-67: the part and peer fields, s being the rest after the third
\* number.
ParseFilenameTail(m3, s3) ==
    IF Len(s3) < 8 THEN FilenamePanic("s[8:]", m3)
    ELSE LET r5 == getUint32(Drop(s3, 8))
         IN IF r5.status = "panic" THEN FilenamePanic("s[:8] (part)", m3)
            ELSE IF r5.err THEN FilenameError(m3)
            ELSE LET m5 == [m3 EXCEPT !.PartNo = PartNoOf(r5.n),
                                      !.PartTotal = PartTotalOf(r5.n)]
                 IN IF Len(r5.rest) < 25 THEN FilenamePanic("s[25:]", m5)
                    ELSE LET s6 == Drop(r5.rest, 25)
                         IN IF Len(s6) < 12 THEN FilenamePanic("s[:len(msg.Peer)]", m5)
                            ELSE LET m7 == [m5 EXCEPT !.Peer = Take(s6, 12)]
                                     s7 == Drop(s6, 12)
                                 IN IF Len(s7) <= 7 THEN FilenamePanic("s[7]", m7)
                                    ELSE [status |-> "ok",
                                          msg |-> [m7 EXCEPT !.Pad = Uint8(s7[8])]]

ParseFilename(msg, name) ==
    LET r1 == getUint32(name)
    IN IF r1.status = "panic" THEN FilenamePanic("s[:8] (Seq)", msg)
       ELSE LET m1 == [msg EXCEPT !.Seq = r1.n]
                r2 == getUint32(r1.rest)
            IN IF r1.err THEN FilenameError(m1)
               ELSE IF r2.status = "panic" THEN FilenamePanic("s[:8] (Timestamp)", m1)
               ELSE LET m2 == [m1 EXCEPT !.Timestamp = r2.n]
                        r3 == getUint32(r2.rest)
                    IN IF r2.err THEN FilenameError(m2)
                       ELSE IF r3.status = "panic"
                            THEN FilenamePanic("s[:8] (multipart)", m2)
                       ELSE IF r3.err THEN FilenameError(m2)
                       ELSE ParseFilenameTail(
                                [m2 EXCEPT !.MultipartSeq = MultipartSeqOf(r3.n),
                                           !.Flags = FlagsOf(r3.n)],
                                r3.rest)

-----------------------------------------------------------------------------
(* Argument sets *)

SeqsUpTo(S, n) == UNION {[1..k -> S] : k \in 0..n}

Exact(q) == MkSlice(q, Len(q))

\* Longest BCD argument (octets).
MaxBcdLen == 3

\* 0x10 0x32 0xF1 0x1A 0xA1 0x1F 0xFF 0x99
BcdOctets == {16, 50, 241, 26, 161, 31, 255, 153}

\* 0x00 0x21 0x9F
StampOctets == {0, 33, 159}

\* Longest text packed (septets).
MaxSeptets == 8

\* 0x00 0x7F 0x55
SeptetValues == {0, 127, 85}

\* The encoder of GSM 03.38 packed text, the peer of unpack7bit: septet i
\* occupies bits 7i..7i+6 of the octet stream, least significant bit first,
\* and the stream is ceil(7L/8) octets long.  Not part of message.go.
Pack7bit(q) ==
    LET L == Len(q)
        Bit(m) == IF m \div 7 < L THEN (q[m \div 7 + 1] \div Pow2(m % 7)) % 2 ELSE 0
        Octet(j) == Bit(8*j) + 2*Bit(8*j+1) + 4*Bit(8*j+2) + 8*Bit(8*j+3)
                    + 16*Bit(8*j+4) + 32*Bit(8*j+5) + 64*Bit(8*j+6) + 128*Bit(8*j+7)
    IN [j \in 1..((7 * L + 7) \div 8) |-> Octet(j - 1)]

-----------------------------------------------------------------------------
(* Specification of decodeBCD calls *)

InitBCD ==
    /\ bcdIn \in {Exact(q) : q \in SeqsUpTo(BcdOctets, MaxBcdLen)}
    /\ bcdOut = Pending
    /\ filename = Unused /\ fnResult = Unused /\ buf = Unused /\ raw = Unused
    /\ pdu = Unused /\ dlv = Unused /\ stampIn = Unused /\ stampOut = Unused
    /\ septets = Unused /\ packed = Unused /\ unpacked = Unused

CallDecodeBCD ==
    /\ bcdOut.status = "pending"
    /\ bcdOut' = [status |-> "ok", s |-> decodeBCD(bcdIn)]
    /\ UNCHANGED << filename, fnResult, buf, raw, pdu, dlv, bcdIn,
                    stampIn, stampOut, septets, packed, unpacked >>

NextBCD == CallDecodeBCD

SpecBCD == InitBCD /\ [][NextBCD]_vars

-----------------------------------------------------------------------------
(* Specification of parseDateTime calls *)

InitDateTime ==
    /\ stampIn \in {Exact(q) : q \in [1..7 -> StampOctets]}
    /\ stampOut = Pending
    /\ filename = Unused /\ fnResult = Unused /\ buf = Unused /\ raw = Unused
    /\ pdu = Unused /\ dlv = Unused /\ bcdIn = Unused /\ bcdOut = Unused
    /\ septets = Unused /\ packed = Unused /\ unpacked = Unused

CallParseDateTime ==
    /\ stampOut.status = "pending"
    /\ stampOut' = [status |-> "ok", t |-> parseDateTime(stampIn)]
    /\ UNCHANGED << filename, fnResult, buf, raw, pdu, dlv, bcdIn, bcdOut,
                    stampIn, septets, packed, unpacked >>

NextDateTime == CallParseDateTime

SpecDateTime == InitDateTime /\ [][NextDateTime]_vars

-----------------------------------------------------------------------------
(* Specification of a packed text handed to unpack7bit *)

InitUnpack ==
    /\ septets \in SeqsUpTo(SeptetValues, MaxSeptets)
    /\ packed = Pending
    /\ unpacked = Pending
    /\ filename = Unused /\ fnResult = Unused /\ buf = Unused /\ raw = Unused
    /\ pdu = Unused /\ dlv = Unused /\ bcdIn = Unused /\ bcdOut = Unused
    /\ stampIn = Unused /\ stampOut = Unused

EncoderPacks ==
    /\ packed.status = "pending"
    /\ packed' = [status |-> "ok", octets |-> Exact(Pack7bit(septets))]
    /\ UNCHANGED << filename, fnResult, buf, raw, pdu, dlv, bcdIn, bcdOut,
                    stampIn, stampOut, septets, unpacked >>

CallUnpack7bit ==
    /\ packed.status = "ok"
    /\ unpacked.status = "pending"
    /\ unpacked' = [status |-> "ok", out |-> unpack7bit(packed.octets)]
    /\ UNCHANGED << filename, fnResult, buf, raw, pdu, dlv, bcdIn, bcdOut,
                    stampIn, stampOut, septets, packed >>

NextUnpack == EncoderPacks \/ CallUnpack7bit

SpecUnpack == InitUnpack /\ [][NextUnpack]_vars

-----------------------------------------------------------------------------
(* C5 *)

\* C5: 7-bit round trip.  A text of L septets, packed into ceil(7L/8) octets,
\* unpacked by unpack7bit and cut to L entries, is the text again.
C5_RoundTrip ==
    unpacked.status = "ok" =>
        /\ packed.octets.len = (7 * Len(septets) + 7) \div 8
        /\ unpacked.out.len >= Len(septets)
        /\ Data(Slice(unpacked.out, 0, Len(septets))) = septets

\* A text of 7 septets: 7 octets carry 8 septets, the last one is cut.
C5_Witness ==
    /\ unpacked.status = "ok"
    /\ Len(septets) = 7
    /\ septets[7] = 127
    /\ packed.octets.len = 7
    /\ unpacked.out.len = 8

-----------------------------------------------------------------------------
(* C7 *)

C7_Fill(b) == {i \in 1..Len(b) : b[i] \div 16 = 15}

C7_Stop(b) ==
    IF C7_Fill(b) = {} THEN Len(b) + 1
    ELSE CHOOSE i \in C7_Fill(b) : \A j \in C7_Fill(b) : i <= j

C7_Emitted(b) ==
    LET n == IF C7_Stop(b) <= Len(b) THEN 2 * C7_Stop(b) - 1 ELSE 2 * Len(b)
    IN [j \in 1..n |-> IF j % 2 = 1 THEN b[(j + 1) \div 2] % 16 ELSE b[j \div 2] \div 16]

\* C7 as stated: for every byte sequence decodeBCD returns decimal digits
\* only, the low nibble's digit then the high nibble's, stopping after the
\* low nibble of the first byte whose high nibble is 0xF.
C7_DigitsOnly ==
    bcdOut.status = "ok" =>
        /\ bcdOut.s = [j \in DOMAIN C7_Emitted(Data(bcdIn)) |-> 48 + C7_Emitted(Data(bcdIn))[j]]
        /\ \A j \in DOMAIN bcdOut.s : bcdOut.s[j] \in 48..57

\* C7 amended: for every byte sequence decodeBCD emits, per byte and in
\* order, the character '0' + low nibble and then '0' + high nibble, stopping
\* after the low nibble of the first byte whose high nibble is 0xF; the
\* result is made of decimal digits exactly when every emitted nibble is at
\* most 9 (0x10 0x32 gives "0123", 0xF1 gives "1").
C7_NibbleChars ==
    bcdOut.status = "ok" =>
        LET e == C7_Emitted(Data(bcdIn))
        IN /\ bcdOut.s = [j \in DOMAIN e |-> 48 + e[j]]
           /\ (\A j \in DOMAIN bcdOut.s : bcdOut.s[j] \in 48..57)
                <=> (\A j \in DOMAIN e : e[j] <= 9)
           /\ Data(bcdIn) = << 16, 50 >> => bcdOut.s = << 48, 49, 50, 51 >>
           /\ Data(bcdIn) = << 241 >> => bcdOut.s = << 49 >>

\* 0x10 0xF1 0x32: the fill nibble ends the number after "011".
C7_Witness ==
    /\ bcdOut.status = "ok"
    /\ Data(bcdIn) = << 16, 241, 50 >>
    /\ bcdOut.s = << 48, 49, 49 >>

-----------------------------------------------------------------------------
(* C8 *)

C8_Lo(i) == At(stampIn, i) % 16
C8_Hi(i) == At(stampIn, i) \div 16

C8_Fields ==
    /\ stampOut.t.year = 2000 + C8_Lo(0) * 10 + C8_Hi(0)
    /\ stampOut.t.month = C8_Lo(1) * 10 + C8_Hi(1)
    /\ stampOut.t.day = C8_Lo(2) * 10 + C8_Hi(2)
    /\ stampOut.t.hour = C8_Lo(3) * 10 + C8_Hi(3)
    /\ stampOut.t.min = C8_Lo(4) * 10 + C8_Hi(4)
    /\ stampOut.t.sec = C8_Lo(5) * 10 + C8_Hi(5)

\* C8 as stated: the six date and time octets decode as low nibble * 10 +
\* high nibble, and the timezone octet as (low nibble + high nibble * 10)
\* quarter hours, the zone offset being that value * 15 * 60 seconds.
C8_ZoneHighTens ==
    stampOut.status = "ok" =>
        /\ C8_Fields
        /\ stampOut.t.zone.offset = (C8_Lo(6) + C8_Hi(6) * 10) * 15 * 60

\* C8 amended: all seven octets, the timezone octet included, decode as
\* low nibble * 10 + high nibble; the zone offset is the seventh value
\* * 15 * 60 seconds.
C8_ZoneLowTens ==
    stampOut.status = "ok" =>
        /\ C8_Fields
        /\ stampOut.t.zone.offset = (C8_Lo(6) * 10 + C8_Hi(6)) * 15 * 60

\* Timezone octet 0x21: 12 quarter hours, three hours east.
C8_Witness ==
    /\ stampOut.status = "ok"
    /\ At(stampIn, 6) = 33
    /\ At(stampIn, 0) = 33
    /\ stampOut.t.year = 2012
    /\ stampOut.t.zone.offset = 10800

-----------------------------------------------------------------------------
(* Specification of ParseFilename calls *)

\* The writer of the archive: a number as 8 upper-case hexadecimal digits.
Hex8(n) ==
    [i \in 1..8 |->
        LET h == IF i <= 4 THEN n.hi ELSE n.lo
            d == (h \div Pow2(4 * ((8 - i) % 4))) % 16
        IN IF d < 10 THEN 48 + d ELSE 65 + d - 10]

\* 0x00B72010 (the example of the source), 0xFFFF1000, 0x12345678
MultipartWords == {Word(183, 8208), Word(65535, 4096), Word(4660, 22136)}

\* 0x00302000 (part 2 of 3), 0xF1A3B7C5, 0
PartWords == {Word(48, 8192), Word(61859, 47045), Word(0, 0)}

\* "363001234567"
PeerDigits == << 51, 54, 51, 48, 48, 49, 50, 51, 52, 53, 54, 55 >>

\* 00001DFC 3CEAC364 <multipart> 00500000 <part> 0*25 <peer> 0000007C
FilenameOf(w3, w5) ==
    Hex8(Word(0, 7676)) \o Hex8(Word(15594, 50020)) \o Hex8(w3)
        \o Hex8(Word(80, 0)) \o Hex8(w5)
        \o [i \in 1..25 |-> 48] \o PeerDigits \o Hex8(Word(0, 124))

\* Characters a caller may leave after the name (an extension not stripped).
MaxExtra == 2

\* Places (1-based, 0: nowhere) where a name is given another character:
\* one in each number, in each skipped region and in the peer.
AlteredAt == {0, 3, 12, 20, 28, 36, 39, 50, 70}

\* 'G' (no digit), 'a' (a lower-case digit)
AlteredTo == {71, 97}

Altered(q, pos, ch) == [i \in 1..Len(q) |-> IF i = pos THEN ch ELSE q[i]]

Filenames ==
    { Take(Altered(FilenameOf(w3, w5) \o [i \in 1..MaxExtra |-> 120], pos, ch), n) :
        w3 \in MultipartWords, w5 \in PartWords, pos \in AlteredAt,
        ch \in AlteredTo, n \in 0..(85 + MaxExtra) }

InitFilename ==
    /\ filename \in Filenames
    /\ fnResult = Pending
    /\ buf = Unused /\ raw = Unused /\ pdu = Unused /\ dlv = Unused
    /\ bcdIn = Unused /\ bcdOut = Unused /\ stampIn = Unused /\ stampOut = Unused
    /\ septets = Unused /\ packed = Unused /\ unpacked = Unused

CallParseFilename ==
    /\ fnResult.status = "pending"
    /\ fnResult' = ParseFilename(ZeroMessage, filename)
    /\ UNCHANGED << filename, buf, raw, pdu, dlv, bcdIn, bcdOut,
                    stampIn, stampOut, septets, packed, unpacked >>

NextFilename == CallParseFilename

SpecFilename == InitFilename /\ [][NextFilename]_vars

-----------------------------------------------------------------------------
(* C3, C4 *)

C3_IsHex(c) == c \in (48..57) \cup (65..70) \cup (97..102)

\* The four numbers are at characters 0..7, 8..15, 16..23 and 32..39.
C3_BadHex ==
    \E i \in (1..8) \cup (9..16) \cup (17..24) \cup (33..40) :
        i <= Len(filename) /\ ~C3_IsHex(filename[i])

\* C3: a name too short at any step (fewer than 85 characters), or with a
\* number that is not hexadecimal, makes ParseFilename return an error.
C3_ShortOrBadHexIsError ==
    (fnResult.status # "pending" /\ (Len(filename) < 85 \/ C3_BadHex))
        => fnResult.status = "error"

C4_Value(c) ==
    CASE c \in 48..57 -> c - 48
      [] c \in 65..70 -> c - 55
      [] c \in 97..102 -> c - 87

\* The value of hexadecimal digit i (1..8, most significant first) of the
\* number that starts at character `from` (0-based): digit i holds bits
\* 4*(8-i) .. 4*(8-i)+3.
C4_Digit(from, i) == C4_Value(filename[from + i])

\* C4: for a well-formed name, with n3 the value of characters 16..23 and n5
\* that of characters 32..39, MultipartSeq is the high and Flags the low 16
\* bits of n3, PartNo is bits 12-19 and PartTotal bits 20-27 of n5 (00302000:
\* part 2 of 3), Peer is characters 65..76 as they are, Pad is character 84.
C4_Fields ==
    fnResult.status = "ok" =>
        /\ fnResult.msg.MultipartSeq =
              C4_Digit(16, 1) * 4096 + C4_Digit(16, 2) * 256
              + C4_Digit(16, 3) * 16 + C4_Digit(16, 4)
        /\ fnResult.msg.Flags =
              C4_Digit(16, 5) * 4096 + C4_Digit(16, 6) * 256
              + C4_Digit(16, 7) * 16 + C4_Digit(16, 8)
        /\ fnResult.msg.PartNo = C4_Digit(32, 4) * 16 + C4_Digit(32, 5)
        /\ fnResult.msg.PartTotal = C4_Digit(32, 2) * 16 + C4_Digit(32, 3)
        /\ fnResult.msg.Peer = SubSeq(filename, 66, 77)
        /\ fnResult.msg.Pad = filename[85]
        /\ SubSeq(filename, 33, 40) = << 48, 48, 51, 48, 50, 48, 48, 48 >>
            => (fnResult.msg.PartNo = 2 /\ fnResult.msg.PartTotal = 3)

\* The name of the source's comment: 00B7 2010, part 2 of 3, pad 'C'.
C4_Witness ==
    /\ fnResult.status = "ok"
    /\ Len(filename) = 85
    /\ filename = FilenameOf(Word(183, 8208), Word(48, 8192))
    /\ fnResult.msg.MultipartSeq = 183
    /\ fnResult.msg.Flags = 8208
    /\ fnResult.msg.PartNo = 2
    /\ fnResult.msg.PartTotal = 3
    /\ fnResult.msg.Peer = PeerDigits
    /\ fnResult.msg.Pad = 67

-----------------------------------------------------------------------------
(* Specification of parseDeliverMessage calls *)

\* The largest user data length an octet declares (line 218, line 223).
MaxUserDataLen == 255

\* Octets of capacity a caller's slice may have beyond its length.
MaxSpare == 1

\* "36300123456", semi-octets swapped and padded with 0xF
AddrSample == << 99, 3, 16, 50, 84, 246 >>

\* 12-10-15 09:30:45, 8 quarter hours
StampSample == << 33, 1, 81, 144, 3, 84, 128 >>

AddrDigitCounts == {0, 11}

\* none, 05 00 03 07 03 02, 06 08 04 01 02 03 02
Headers == { << >>, << 5, 0, 3, 7, 3, 2 >>, << 6, 8, 4, 1, 2, 3, 2 >> }

\* User data octets present relative to the octets the length declares.
Slack == {-1, 0, 8}

Filler(i) == (i * 37 + 11) % 256

UserOctets(h, n) == Take(h \o [i \in 1..n |-> Filler(i)], n)

DeclaredOctets(unicode, L) == IF unicode THEN L ELSE L - L \div 8

DeliverOctets(nb, unicode, L, h, k) ==
    LET n == DeclaredOctets(unicode, L) + k
    IN << 4, nb, 145 >> \o Take(AddrSample, (nb + 1) \div 2)
       \o << 0, IF unicode THEN 8 ELSE 0 >> \o StampSample
       \o << L >> \o UserOctets(h, IF n < 0 THEN 0 ELSE n)

\* The longest user data given every header, address and spare capacity.
MaxVariedLen == 20

\* Every declared length with plain user data, and the short lengths with
\* every header, address length and spare capacity.
DeliverArgs ==
    { Exact(DeliverOctets(11, u, L, << >>, k)) :
        u \in BOOLEAN, L \in 0..MaxUserDataLen, k \in Slack }
    \cup
    { MkSlice(DeliverOctets(nb, u, L, h, k),
              Len(DeliverOctets(nb, u, L, h, k)) - sp) :
        nb \in AddrDigitCounts, u \in BOOLEAN, L \in 0..MaxVariedLen,
        h \in Headers, k \in Slack, sp \in 0..MaxSpare }

InitDeliver ==
    /\ pdu \in DeliverArgs
    /\ dlv = Pending
    /\ filename = Unused /\ fnResult = Unused /\ buf = Unused /\ raw = Unused
    /\ bcdIn = Unused /\ bcdOut = Unused /\ stampIn = Unused /\ stampOut = Unused
    /\ septets = Unused /\ packed = Unused /\ unpacked = Unused

CallParseDeliverMessage ==
    /\ dlv.status = "pending"
    /\ dlv' = parseDeliverMessage(pdu)
    /\ UNCHANGED << filename, fnResult, buf, raw, pdu, bcdIn, bcdOut,
                    stampIn, stampOut, septets, packed, unpacked >>

NextDeliver == CallParseDeliverMessage

SpecDeliver == InitDeliver /\ [][NextDeliver]_vars

-----------------------------------------------------------------------------
(* Specification of parseMessage calls *)

\* "Al" and its terminator, in the 41 code units of the peer name
PeerNamed == << 0, 65, 0, 108 >> \o Zeros(78)

\* 41 code units and no terminator
PeerUnterminated == [i \in 1..82 |-> IF i % 2 = 1 THEN 0 ELSE 65]

PeerFields == {PeerNamed, PeerUnterminated}

TpduHead(format) == << 4, 11, 145 >> \o AddrSample \o << 0, format >> \o StampSample

\* SMS-DELIVER "hello" (7-bit), SMS-DELIVER "Hi" (UCS-2), SMS-SUBMIT,
\* SMS-COMMAND, the reserved type
Tpdus ==
    { TpduHead(0) \o << 5, 232, 50, 155, 253, 6 >>,
      TpduHead(8) \o << 4, 0, 72, 0, 105 >>,
      << 1, 0, 0 >>, << 2, 0, 0 >>, << 3, 0, 0 >> }

\* Nothing; 65 octets, 0001 0003, size 4, "Hi" and 3 octets more; 65 octets,
\* 0001 0003, size 32 and 2 octets of text
Trailers ==
    { << >>,
      Zeros(65) \o << 0, 1, 0, 3, 0, 4, 0, 72, 0, 105, 2, 0, 0 >>,
      Zeros(65) \o << 0, 1, 0, 3, 0, 32, 0, 72 >> }

MessageFiles == { Zeros(94) \o pf \o td \o tr :
                    pf \in PeerFields, td \in Tpdus, tr \in Trailers }

Min(a, b) == IF a < b THEN a ELSE b

\* Every prefix of a file, in a slice of up to MaxSpare octets more.
PrefixesOf(f) ==
    { MkSlice(Take(f, Min(n + sp, Len(f))), n) : n \in 0..Len(f), sp \in 0..MaxSpare }

MessageArgs == UNION { PrefixesOf(f) : f \in MessageFiles }

InitMessage ==
    /\ buf \in MessageArgs
    /\ raw = Pending
    /\ filename = Unused /\ fnResult = Unused /\ pdu = Unused /\ dlv = Unused
    /\ bcdIn = Unused /\ bcdOut = Unused /\ stampIn = Unused /\ stampOut = Unused
    /\ septets = Unused /\ packed = Unused /\ unpacked = Unused

CallParseMessage ==
    /\ raw.status = "pending"
    /\ raw' = parseMessage(buf)
    /\ UNCHANGED << filename, fnResult, buf, pdu, dlv, bcdIn, bcdOut,
                    stampIn, stampOut, septets, packed, unpacked >>

NextMessage == CallParseMessage

SpecMessage == InitMessage /\ [][NextMessage]_vars

-----------------------------------------------------------------------------
(* C1, C2 *)

\* The peer name ends in the buffer before the TPDU.
C1_PeerTerminated ==
    \E k \in 0..40 : /\ 94 + 2 * k + 1 < buf.len
                     /\ At(buf, 94 + 2 * k) = 0
                     /\ At(buf, 94 + 2 * k + 1) = 0

\* C1: a buffer whose octet at 0xb0 has low two bits 3 makes parseMessage
\* return an error, never abort (stated for the buffers that reach the type
\* octet: those whose peer name is terminated).
C1_ReservedTypeIsError ==
    (raw.status # "pending" /\ buf.len > 176 /\ At(buf, 176) % 4 = 3
        /\ C1_PeerTerminated)
        => raw.status = "error"

\* C2: for every buffer parseMessage ends with a decoded record or with the
\* truncation error; no step reads outside the buffer.
C2_RecordOrTruncated ==
    raw.status # "pending" => raw.status \in {"ok", "error"}

-----------------------------------------------------------------------------
(* C6, C9, C10 *)

\* Offset of the user data length octet in the argument.
DlvLengthAt == 3 + (At(pdu, 1) + 1) \div 2 + 9

DlvUnicode == (At(pdu, DlvLengthAt - 8) \div 8) % 2 = 1

DlvLength == At(pdu, DlvLengthAt)

\* The octets that follow the length octet.
DlvUd == Slice(pdu, DlvLengthAt + 1, pdu.len)

DlvShortHeader ==
    DlvUd.len >= 6 /\ At(DlvUd, 0) = 5 /\ At(DlvUd, 1) = 0 /\ At(DlvUd, 2) = 3

DlvLongHeader ==
    DlvUd.len >= 7 /\ At(DlvUd, 0) = 6 /\ At(DlvUd, 1) = 8 /\ At(DlvUd, 2) = 4

\* The septets of the packed octets of a 7-bit message.
DlvSeptets ==
    Data(unpack7bit(MkSlice(SubSeq(pdu.arr, DlvLengthAt + 2,
                                   DlvLengthAt + 1 + DlvLength - DlvLength \div 8),
                            DlvLength - DlvLength \div 8)))

\* The decoded user data before any header is taken off.
DlvDecoded ==
    IF DlvUnicode
    THEN SubSeq(pdu.arr, DlvLengthAt + 2, DlvLengthAt + 1 + DlvLength)
    ELSE Take(DlvSeptets, DlvLength)

\* C6: in every message parseDeliverMessage returns, user data that begins
\* 05 00 03 r n p gives Ref=r, NParts=n, Part=p and RawData without its first
\* 6 (Unicode) or 7 (7-bit) entries; user data that begins 06 08 04 rh rl n p
\* gives Ref=rh*256+rl, NParts=n, Part=p and RawData without its first 7 or 8
\* entries; otherwise Concat is false and RawData is the decoded user data.
C6_ConcatStripped ==
    dlv.status = "ok" =>
        IF DlvShortHeader
        THEN /\ dlv.msg.Concat
             /\ dlv.msg.Ref = At(DlvUd, 3)
             /\ dlv.msg.NParts = At(DlvUd, 4)
             /\ dlv.msg.Part = At(DlvUd, 5)
             /\ Data(dlv.msg.RawData) = Drop(DlvDecoded, IF DlvUnicode THEN 6 ELSE 7)
        ELSE IF DlvLongHeader
        THEN /\ dlv.msg.Concat
             /\ dlv.msg.Ref = At(DlvUd, 3) * 256 + At(DlvUd, 4)
             /\ dlv.msg.NParts = At(DlvUd, 5)
             /\ dlv.msg.Part = At(DlvUd, 6)
             /\ Data(dlv.msg.RawData) = Drop(DlvDecoded, IF DlvUnicode THEN 7 ELSE 8)
        ELSE /\ ~dlv.msg.Concat
             /\ Data(dlv.msg.RawData) = DlvDecoded

\* A 7-bit message of 20 septets that begins 05 00 03 07 03 02.
C6_Witness ==
    /\ dlv.status = "ok"
    /\ ~dlv.msg.Unicode
    /\ DlvLength = 20
    /\ DlvShortHeader
    /\ dlv.msg.Concat
    /\ dlv.msg.Ref = 7 /\ dlv.msg.NParts = 3 /\ dlv.msg.Part = 2
    /\ dlv.msg.RawData.len = 13

\* C9: for a 7-bit message that declares L septets and has no concatenation
\* header, parseDeliverMessage reads L - floor(L/8) packed octets, these
\* unpack to floor(8*(L - floor(L/8))/7) >= L septets, and RawData ends with
\* exactly L entries, each in 0..127: with the packed octets in the slice
\* the call never fails.
C9_SeptetCount ==
    (dlv.status # "pending" /\ pdu.len > DlvLengthAt /\ ~DlvUnicode
        /\ ~DlvShortHeader /\ ~DlvLongHeader)
    => LET L == DlvLength
           n == L - L \div 8
           sep == DlvSeptets
       IN IF DlvLengthAt + 1 + n <= Cap(pdu)
          THEN /\ dlv.status = "ok"
               /\ dlv.size = DlvLengthAt + 1 + n
               /\ Len(sep) = (8 * n) \div 7
               /\ Len(sep) >= L
               /\ dlv.msg.RawData.len = L
               /\ Data(dlv.msg.RawData) = Take(sep, L)
               /\ \A i \in 1..L : dlv.msg.RawData.arr[i] \in 0..127
          ELSE dlv.status = "panic"

\* 255 septets: 224 octets, which hold 256 septets.
C9_Witness ==
    /\ dlv.status = "ok"
    /\ ~dlv.msg.Unicode /\ ~dlv.msg.Concat
    /\ DlvLength = 255
    /\ dlv.size = DlvLengthAt + 1 + 224
    /\ Len(DlvSeptets) = 256
    /\ dlv.msg.RawData.len = 255

\* C10: a concatenation header is recognised only inside the declared user
\* data, and the entries taken off for it never exceed the length of RawData.
C10_StripInRange ==
    /\ dlv.status = "panic" => dlv.at # "RawData[n:]"
    /\ (dlv.status = "ok" /\ dlv.msg.Concat) =>
          (IF DlvShortHeader THEN 6 ELSE 7) <= DeclaredOctets(DlvUnicode, DlvLength)

=============================================================================
